---- MODULE Spec2Model ----
(***************************************************************************)
(* Model of monitor_als_arcteryx.py: the change-detection pipeline         *)
(* (jload, compute_diff, jdump, format_discord_message, send_discord,      *)
(* main).                                                                  *)
(*                                                                         *)
(* Two specifications are given:                                           *)
(*   Spec      one run of main(), step by step, over every snapshot file   *)
(*             content, scrape result, environment and server behaviour    *)
(*             in the bounded sets below;                                  *)
(*   SpecDiff  compute_diff as a pure function, applied to every pair of   *)
(*             snapshots in the bounded input set (including values the    *)
(*             scraper never writes: missing price, non-numeric size       *)
(*             quantities).                                                *)
(***************************************************************************)
EXTENDS Integers, Sequences, FiniteSets, TLC

VARIABLES
    pc,             \* position of the run in main / jdump / send_discord
    file,           \* what a reader finds at SNAPSHOT_PATH
    tmp,            \* the NamedTemporaryFile jdump creates beside it
    old,            \* main's `old`  (the value jload returned)
    new,            \* main's `new`  (the value scrape_all_products returned)
    diffs,          \* main's `diffs`
    webhook,        \* os.environ DISCORD_WEBHOOK_URL ("" when unset)
    always_notify,  \* os.environ ALWAYS_NOTIFY
    payload,        \* main's `payload` (format_discord_message's result)
    sendCalled,     \* send_discord has been called in this run
    attempt,        \* send_discord's loop variable
    posts,          \* number of POST requests issued so far
    lastResp,       \* outcome of the most recent POST
    wait,           \* argument of the most recent time.sleep in send_discord
    exit            \* how the process ended: "running", "ok" (status 0), "error"

vars == <<pc, file, tmp, old, new, diffs, webhook, always_notify, payload,
          sendCalled, attempt, posts, lastResp, wait, exit>>

(***************************************************************************)
(* Bounds                                                                  *)
(***************************************************************************)
\* largest per-size quantity in the input snapshots
MaxQty == 2

(***************************************************************************)
(* Data model                                                              *)
(***************************************************************************)
\* Variant keys.  Python sorts them as strings; Rank is that order.
Keys == {"a", "b"}
Rank == [k \in Keys |-> IF k = "a" THEN 1 ELSE 2]

\* Size labels.
Sizes == {"M", "L"}

\* A size quantity as found in a snapshot: an int, or a value int() rejects
\* (kind "text": val is the length of the text, so val = 0 is the empty,
\* falsy string and val > 0 a truthy non-numeric string such as "low").
IntQ(n) == [kind |-> "int", val |-> n]
TextQ(n) == [kind |-> "text", val |-> n]
IntQtys == {IntQ(n) : n \in 0..MaxQty}
AnyQtys == IntQtys \cup {TextQ(0), TextQ(1)}

\* A price: a float, math.nan, or None (the key is missing / JSON null).
\* Numbers are in thousandths of the currency unit.  The set holds no two
\* prices exactly 0.01 apart, so the float rounding of that boundary case
\* plays no part here.
NumP(n) == [kind |-> "num", val |-> n]
NaN == [kind |-> "nan", val |-> 0]
NoneP == [kind |-> "none", val |-> 0]
Prices == {NaN, NumP(10000), NumP(10020)}
AnyPrices == Prices \cup {NoneP}

\* every dict from a subset of Sizes to quantities in Q
SizeMaps(Q) == UNION {[D -> Q] : D \in SUBSET Sizes}
EmptyMap == [s \in {} |-> IntQ(0)]

\* A record as compute_diff reads it: the three fields it looks at.  A null
\* or empty record ({}), read through .get, is the record NoRecord.
Records(P, Q) == [price : P, in_stock : BOOLEAN, sizes : SizeMaps(Q)]
NoRecord == [price |-> NoneP, in_stock |-> FALSE, sizes |-> EmptyMap]

\* parse_product_detail: prices are floats or nan, quantities are ints >= 0,
\* in_stock is derived from the sizes
ScrapedRecord(p, sz) ==
    [price |-> p, sizes |-> sz,
     in_stock |-> (\E s \in DOMAIN sz : sz[s].val > 0)]

\* sorted(S) for a set of keys
RECURSIVE SortKeys(_)
SortKeys(S) ==
    IF S = {} THEN <<>>
    ELSE LET m == CHOOSE x \in S : \A y \in S : Rank[x] <= Rank[y]
         IN  <<m>> \o SortKeys(S \ {m})

(***************************************************************************)
(* compute_diff                                                            *)
(***************************************************************************)
Abs(x) == IF x < 0 THEN -x ELSE x

\* abs(op - np) >= 0.01, in thousandths
PriceThreshold == 10

\* lines 479-482: both prices are numbers, neither is nan, and they differ by
\* at least the threshold
PriceChanged(o, n) ==
    /\ o.price.kind = "num"
    /\ n.price.kind = "num"
    /\ Abs(o.price.val - n.price.val) >= PriceThreshold

Restocked_Any(o, n) == n.in_stock

Restocked_BothWays(o, n) == o.in_stock # n.in_stock

\* lines 484-486: (not o.get("in_stock", False)) and n.get("in_stock", False)
Restocked(o, n) == (~o.in_stock) /\ n.in_stock

\* Python truthiness of a quantity: 0 and "" are falsy
Truthy(q) == q.val # 0

\* osizes.get(size, 0)
GetQty(osizes, size) == IF size \in DOMAIN osizes THEN osizes[size] ELSE IntQ(0)

SizeIncreased_Geq(nqty, oqty) ==
    IF nqty.kind = "int" /\ oqty.kind = "int"
    THEN nqty.val >= oqty.val
    ELSE Truthy(nqty) /\ ~Truthy(oqty)

\* lines 494-500: int(nqty) > int(oqty); when int() raises on either value,
\* the 0/1 test `nqty and not oqty`
SizeIncreased(nqty, oqty) ==
    IF nqty.kind = "int" /\ oqty.kind = "int"
    THEN nqty.val > oqty.val
    ELSE Truthy(nqty) /\ ~Truthy(oqty)

\* the value stored in `increased`: int(nqty), or 1 on the fallback path
IncreasedValue(nqty, oqty) ==
    IF nqty.kind = "int" /\ oqty.kind = "int" THEN IntQ(nqty.val) ELSE IntQ(1)

\* lines 489-500: the dict `increased` built by the loop over nsizes.items()
Increased(osizes, nsizes) ==
    LET D == {s \in DOMAIN nsizes : SizeIncreased(nsizes[s], GetQty(osizes, s))}
    IN  [s \in D |-> IncreasedValue(nsizes[s], GetQty(osizes, s))]

NewOnlyKeys_All(o, n) == DOMAIN n

\* line 470: new_keys - old_keys
NewOnlyKeys(o, n) == DOMAIN n \ DOMAIN o

\* line 474: new_keys & old_keys
SharedKeys(o, n) == DOMAIN n \cap DOMAIN o

\* the tuples appended to the four lists
Entry(k, o, n) == [key |-> k, old |-> o, new |-> n]
IncEntry(k, o, n, inc) == [key |-> k, old |-> o, new |-> n, inc |-> inc]

\* o = old[k] or {} ; n = new[k] or {}
compute_diff(o, n) ==
    LET added  == SortKeys(NewOnlyKeys(o, n))
        shared == SortKeys(SharedKeys(o, n))
        E(k)   == Entry(k, o[k], n[k])
        inc(k) == Increased(o[k].sizes, n[k].sizes)
        pc_k   == SelectSeq(shared, LAMBDA k : PriceChanged(o[k], n[k]))
        rs_k   == SelectSeq(shared, LAMBDA k : Restocked(o[k], n[k]))
        si_k   == SelectSeq(shared, LAMBDA k : DOMAIN inc(k) # {})
    IN  [new_items       |-> [i \in 1..Len(added) |->
                                 Entry(added[i], NoRecord, n[added[i]])],
         price_changes   |-> [i \in 1..Len(pc_k) |-> E(pc_k[i])],
         restocks        |-> [i \in 1..Len(rs_k) |-> E(rs_k[i])],
         stock_increases |-> [i \in 1..Len(si_k) |->
                                 IncEntry(si_k[i], o[si_k[i]], n[si_k[i]],
                                          inc(si_k[i]))]]

NoDiffs == [new_items |-> <<>>, price_changes |-> <<>>, restocks |-> <<>>,
            stock_increases |-> <<>>]

(***************************************************************************)
(* Values and files                                                        *)
(***************************************************************************)
EmptySnap == [k \in {} |-> NoRecord]

\* A parsed JSON document, by the type of its top level.  Only a mapping has
\* content the program reads.
Mapping(m) == [kind |-> "mapping", map |-> m]
NonMapping(kind) == [kind |-> kind, map |-> EmptySnap]
IsMapping(v) == v.kind = "mapping"

\* What is stored under a path: nothing, something that cannot be read,
\* text that is no JSON document, a complete JSON document, or the front
\* part of one ("empty": opened for writing, nothing written yet;
\* "partial": some of the text written).
NoFile == [kind |-> "absent", doc |-> NonMapping("null")]
Unreadable == [kind |-> "unreadable", doc |-> NonMapping("null")]
Malformed == [kind |-> "malformed", doc |-> NonMapping("null")]
EmptyFile == [kind |-> "empty", doc |-> NonMapping("null")]
PartialFile == [kind |-> "partial", doc |-> NonMapping("null")]
\* json.dump(obj, tmp, ensure_ascii=False, indent=2), run to the end
Serialized(v) == [kind |-> "json", doc |-> v]

NoResp == [kind |-> "none", code |-> 0, retry_after |-> [kind |-> "absent", val |-> 0]]
NoPayload == [made |-> FALSE, sections |-> <<>>, no_changes |-> FALSE]

(***************************************************************************)
(* jload                                                                   *)
(***************************************************************************)
\* main's locals before they are assigned
Unassigned == NonMapping("unassigned")

\* lines 68-78.  A missing file gives {}; so does any exception of
\* read_text / json.loads / len(data) (len of a number, of true/false or of
\* None raises TypeError inside the try).  Anything else json.loads
\* returns is returned as it is: a dict, but also a list or a string, whose
\* len() succeeds.
jload(f) ==
    IF f.kind = "absent" THEN Mapping(EmptySnap)
    ELSE IF f.kind # "json" THEN Mapping(EmptySnap)
    ELSE IF f.doc.kind \in {"number", "null"} THEN Mapping(EmptySnap)
    ELSE f.doc

(***************************************************************************)
(* format_discord_message                                                  *)
(***************************************************************************)
\* the [:20] slices of lines 558, 564, 570, 576
EntryCap == 20

Min(x, y) == IF x < y THEN x ELSE y
Max(x, y) == IF x > y THEN x ELSE y

\* list[:n]
Take(list, n) == SubSeq(list, 1, Min(n, Len(list)))

\* One section of the message: its heading and the keys of the entries it
\* renders (the rendered text of an entry is not modelled).
Section(title, list) ==
    IF Len(list) = 0 THEN <<>>
    ELSE <<[title |-> title,
            keys |-> [i \in 1..Len(Take(list, EntryCap)) |-> list[i].key]]>>

format_discord_message_NewItemsOnly(d) ==
    LET sections == Section("new_items", d.new_items)
                    \o Section("price_changes", d.price_changes)
                    \o Section("restocks", d.restocks)
                    \o Section("stock_increases", d.stock_increases)
    IN  [made |-> TRUE, sections |-> sections,
         no_changes |-> (Len(d.new_items) = 0)]

\* lines 536-603: one section per non-empty list, in this order; when no
\* line was produced the description is the "no changes" text
format_discord_message(d) ==
    LET sections == Section("new_items", d.new_items)
                    \o Section("price_changes", d.price_changes)
                    \o Section("restocks", d.restocks)
                    \o Section("stock_increases", d.stock_increases)
    IN  [made |-> TRUE, sections |-> sections, no_changes |-> (Len(sections) = 0)]

(***************************************************************************)
(* main                                                                    *)
(***************************************************************************)
\* sum(len(v) for v in diffs.values())
TotalChanges(d) ==
    Len(d.new_items) + Len(d.price_changes) + Len(d.restocks)
        + Len(d.stock_increases)

ShouldNotify_NoStock(d, flag) ==
    (Len(d.new_items) + Len(d.price_changes) + Len(d.restocks) > 0) \/ flag = "1"

\* line 684
ShouldNotify(d, flag) == (TotalChanges(d) > 0) \/ flag = "1"

\* What the scraper returns and what earlier runs wrote to the snapshot
\* file: records built by parse_product_detail, and the parse_failed
\* placeholder of lines 427-439 (nan price, no sizes, out of stock).
Placeholder == ScrapedRecord(NaN, EmptyMap)
ScrapedRecords ==
    {Placeholder, ScrapedRecord(NumP(10020), [s \in {"M"} |-> IntQ(1)])}
      \cup {ScrapedRecord(NumP(10000), [s \in {"M"} |-> q]) : q \in IntQtys}
\* key "a" ranges over every scraped record, key "b" is there or not
ScrapedSnapshots ==
    UNION {{f \in [K -> ScrapedRecords] :
              "b" \in K => f["b"] = ScrapedRecord(NumP(10000), [s \in {"M"} |-> IntQ(1)])}
             : K \in SUBSET Keys}

\* what may be at SNAPSHOT_PATH when the run starts
InitialFiles ==
    {NoFile, Unreadable, Malformed}
      \cup {Serialized(NonMapping(k)) : k \in {"list", "string", "number", "null"}}
      \cup {Serialized(Mapping(m)) : m \in ScrapedSnapshots}

Init ==
    /\ pc = "jload"
    /\ file \in InitialFiles
    /\ tmp = NoFile
    /\ old = Unassigned
    /\ new = Unassigned
    /\ diffs = NoDiffs
    /\ webhook \in {"", " ", "url"}
    /\ always_notify \in {"0", "1", "true"}
    /\ payload = NoPayload
    /\ sendCalled = FALSE
    /\ attempt = 0
    /\ posts = 0
    /\ lastResp = NoResp
    /\ wait = 0
    /\ exit = "running"

\* an exception nobody catches: the interpreter prints it and exits with 1
Raise ==
    /\ pc' = "raised"
    /\ exit' = "error"

\* line 669
MainLoad ==
    /\ pc = "jload"
    /\ old' = jload(file)
    /\ pc' = "scrape"
    /\ UNCHANGED <<file, tmp, new, diffs, webhook, always_notify, payload,
                   sendCalled, attempt, posts, lastResp, wait, exit>>

\* line 672
MainScrape ==
    /\ pc = "scrape"
    /\ \E m \in ScrapedSnapshots : new' = Mapping(m)
    /\ pc' = "compute_diff"
    /\ UNCHANGED <<file, tmp, old, diffs, webhook, always_notify, payload,
                   sendCalled, attempt, posts, lastResp, wait, exit>>

MainDiff_SaveOnlyChanges ==
    /\ pc = "compute_diff"
    /\ IsMapping(old)
    /\ diffs' = compute_diff(old.map, new.map)
    /\ pc' = IF TotalChanges(diffs') > 0 THEN "jdump" ELSE "notify"
    /\ UNCHANGED <<file, tmp, old, new, webhook, always_notify, payload,
                   sendCalled, attempt, posts, lastResp, wait, exit>>

\* lines 675-682: compute_diff, then on to jdump.  old.keys() raises
\* AttributeError when old is a list or a string.
MainDiff ==
    /\ pc = "compute_diff"
    /\ \/ /\ IsMapping(old)
          /\ diffs' = compute_diff(old.map, new.map)
          /\ pc' = "jdump"
          /\ UNCHANGED exit
       \/ /\ ~IsMapping(old)
          /\ Raise
          /\ UNCHANGED diffs
    /\ UNCHANGED <<file, tmp, old, new, webhook, always_notify, payload,
                   sendCalled, attempt, posts, lastResp, wait>>

(***************************************************************************)
(* jdump(new, SNAPSHOT_PATH), one step per file operation                  *)
(***************************************************************************)
WritingPcs == {"jd_dump", "jd_dump_rest", "jd_flush", "jd_fsync"}
CopyingPcs == {"jd_copy", "jd_copy_write", "jd_copy_rest"}
JdumpPcs == {"jdump", "jd_move", "jd_finally"} \cup WritingPcs \cup CopyingPcs

\* lines 53-54: mkdir, then NamedTemporaryFile(delete=False) in the
\* snapshot's directory; either may raise OSError
JdumpCreate ==
    /\ pc = "jdump"
    /\ \/ /\ tmp' = EmptyFile
          /\ pc' = "jd_dump"
          /\ UNCHANGED exit
       \/ /\ Raise
          /\ UNCHANGED tmp
    /\ UNCHANGED <<file, old, new, diffs, webhook, always_notify, payload,
                   sendCalled, attempt, posts, lastResp, wait>>

\* line 55: json.dump writes the text piece by piece
JdumpDump ==
    /\ \/ /\ pc = "jd_dump"
          /\ tmp' = PartialFile
          /\ pc' = "jd_dump_rest"
       \/ /\ pc = "jd_dump_rest"
          /\ tmp' = Serialized(new)
          /\ pc' = "jd_flush"
    /\ UNCHANGED <<file, old, new, diffs, webhook, always_notify, payload,
                   sendCalled, attempt, posts, lastResp, wait, exit>>

\* line 56
JdumpFlush ==
    /\ pc = "jd_flush"
    /\ pc' = "jd_fsync"
    /\ UNCHANGED <<file, tmp, old, new, diffs, webhook, always_notify, payload,
                   sendCalled, attempt, posts, lastResp, wait, exit>>

\* lines 57-58, and the close at the end of the with block
JdumpFsync ==
    /\ pc = "jd_fsync"
    /\ pc' = "jd_move"
    /\ UNCHANGED <<file, tmp, old, new, diffs, webhook, always_notify, payload,
                   sendCalled, attempt, posts, lastResp, wait, exit>>

\* lines 54-58: an exception inside the with block (a value json cannot
\* serialize, a full disk, an I/O error).  The with block closes the file,
\* which was created with delete=False; the try/finally that unlinks it has
\* not been entered, so the exception leaves the temporary file behind.
JdumpWriteFails ==
    /\ pc \in WritingPcs
    /\ Raise
    /\ UNCHANGED <<file, tmp, old, new, diffs, webhook, always_notify, payload,
                   sendCalled, attempt, posts, lastResp, wait>>

\* line 60: shutil.move(tmp_name, path) calls os.rename(src, dst), which
\* replaces the destination in one step; when os.rename raises OSError (on
\* Windows whenever the destination exists) shutil.move falls back to
\* copy2(src, dst) followed by os.unlink(src).
JdumpMove ==
    /\ pc = "jd_move"
    /\ \/ /\ file' = tmp
          /\ tmp' = NoFile
          /\ pc' = "jd_finally"
       \/ /\ pc' = "jd_copy"
          /\ UNCHANGED <<file, tmp>>
    /\ UNCHANGED <<old, new, diffs, webhook, always_notify, payload,
                   sendCalled, attempt, posts, lastResp, wait, exit>>

\* line 60, the copy of shutil.move's fallback: copy2 opens the destination
\* for writing, which empties it, writes the content piece by piece, and
\* then shutil.move unlinks the source
JdumpCopy ==
    /\ \/ /\ pc = "jd_copy"
          /\ file' = EmptyFile
          /\ pc' = "jd_copy_write"
          /\ UNCHANGED tmp
       \/ /\ pc = "jd_copy_write"
          /\ file' = PartialFile
          /\ pc' = "jd_copy_rest"
          /\ UNCHANGED tmp
       \/ /\ pc = "jd_copy_rest"
          /\ file' = tmp
          /\ tmp' = NoFile
          /\ pc' = "jd_finally"
    /\ UNCHANGED <<old, new, diffs, webhook, always_notify, payload,
                   sendCalled, attempt, posts, lastResp, wait, exit>>

\* lines 59-65: the copy raises; the finally clause unlinks the temporary
\* file and the exception goes on to main's caller
JdumpCopyFails ==
    /\ pc \in CopyingPcs
    /\ tmp' = NoFile
    /\ Raise
    /\ UNCHANGED <<file, old, new, diffs, webhook, always_notify, payload,
                   sendCalled, attempt, posts, lastResp, wait>>

\* lines 61-65 after a successful move: os.unlink finds no file, and the
\* FileNotFoundError is swallowed
JdumpFinally ==
    /\ pc = "jd_finally"
    /\ tmp' = NoFile
    /\ pc' = "notify"
    /\ UNCHANGED <<file, old, new, diffs, webhook, always_notify, payload,
                   sendCalled, attempt, posts, lastResp, wait, exit>>

\* the process is killed (or the machine stops) somewhere inside jdump
JdumpCrash ==
    /\ pc \in JdumpPcs
    /\ pc' = "crashed"
    /\ exit' = "killed"
    /\ UNCHANGED <<file, tmp, old, new, diffs, webhook, always_notify, payload,
                   sendCalled, attempt, posts, lastResp, wait>>

(***************************************************************************)
(* main, after jdump                                                       *)
(***************************************************************************)
\* lines 684-688
MainNotify ==
    /\ pc = "notify"
    /\ \/ /\ ShouldNotify(diffs, always_notify)
          /\ payload' = format_discord_message(diffs)
          /\ sendCalled' = TRUE
          /\ pc' = "send_discord"
       \/ /\ ~ShouldNotify(diffs, always_notify)
          /\ pc' = "return"
          /\ UNCHANGED <<payload, sendCalled>>
    /\ UNCHANGED <<file, tmp, old, new, diffs, webhook, always_notify,
                   attempt, posts, lastResp, wait, exit>>

\* line 690 and sys.exit(main())
MainReturn ==
    /\ pc = "return"
    /\ pc' = "exited"
    /\ exit' = "ok"
    /\ UNCHANGED <<file, tmp, old, new, diffs, webhook, always_notify, payload,
                   sendCalled, attempt, posts, lastResp, wait>>

(***************************************************************************)
(* send_discord                                                            *)
(***************************************************************************)
\* for attempt in range(4)
MaxAttempts == 4
\* attempt < 3
LastAttempt == 3

\* os.environ.get("DISCORD_WEBHOOK_URL", "").strip()
Strip(w) == IF w = " " THEN "" ELSE w

\* the Retry-After header of an error response: not sent, sent empty, a
\* number of seconds, or text float() rejects (an HTTP date)
RetryAfters ==
    {[kind |-> "absent", val |-> 0], [kind |-> "empty", val |-> 0],
     [kind |-> "num", val |-> 1], [kind |-> "num", val |-> 30],
     [kind |-> "text", val |-> 0]}
HttpErrorCodes == {429, 403, 502, 503, 400, 404, 500}

IsRetryable_Any(code) == TRUE

\* line 644: e.code in (429, 403, 502, 503)
IsRetryable(code) == code \in {429, 403, 502, 503}

\* line 645: float(e.headers.get("Retry-After", "0") or 0), for the values
\* float() accepts
RetryAfterSeconds(ra) == IF ra.kind = "num" THEN ra.val ELSE 0

\* lines 614-621
SendStart ==
    /\ pc = "send_discord"
    /\ \/ /\ Strip(webhook) = ""
          /\ pc' = "return"
          /\ UNCHANGED attempt
       \/ /\ Strip(webhook) # ""
          /\ attempt' = 0
          /\ pc' = "post"
    /\ UNCHANGED <<file, tmp, old, new, diffs, webhook, always_notify, payload,
                   sendCalled, posts, lastResp, wait, exit>>

\* lines 635-640: the POST succeeds
PostOk ==
    /\ pc = "post"
    /\ attempt < MaxAttempts
    /\ posts' = posts + 1
    /\ lastResp' = [kind |-> "ok", code |-> 200,
                    retry_after |-> [kind |-> "absent", val |-> 0]]
    /\ pc' = "return"
    /\ UNCHANGED <<file, tmp, old, new, diffs, webhook, always_notify, payload,
                   sendCalled, attempt, wait, exit>>

\* lines 641-650: the server answers with an error status.  The float() of
\* line 645 runs inside the except clause: its ValueError is caught by
\* nobody and leaves send_discord and main.
PostHttpError ==
    /\ pc = "post"
    /\ attempt < MaxAttempts
    /\ \E code \in HttpErrorCodes, ra \in RetryAfters :
         /\ posts' = posts + 1
         /\ lastResp' = [kind |-> "http", code |-> code, retry_after |-> ra]
         /\ IF IsRetryable(code) /\ attempt < LastAttempt
            THEN IF ra.kind = "text"
                 THEN Raise /\ UNCHANGED <<attempt, wait>>
                 ELSE /\ wait' = Max(2 ^ attempt, RetryAfterSeconds(ra))
                      /\ attempt' = attempt + 1
                      /\ pc' = "post"
                      /\ UNCHANGED exit
            ELSE /\ pc' = "return"
                 /\ UNCHANGED <<attempt, wait, exit>>
    /\ UNCHANGED <<file, tmp, old, new, diffs, webhook, always_notify, payload,
                   sendCalled>>

\* lines 651-658: any other exception of urlopen (timeout, connection error)
PostNetError ==
    /\ pc = "post"
    /\ attempt < MaxAttempts
    /\ posts' = posts + 1
    /\ lastResp' = [kind |-> "neterr", code |-> 0,
                    retry_after |-> [kind |-> "absent", val |-> 0]]
    /\ IF attempt < LastAttempt
       THEN /\ wait' = 2 ^ attempt
            /\ attempt' = attempt + 1
            /\ pc' = "post"
       ELSE /\ pc' = "return"
            /\ UNCHANGED <<attempt, wait>>
    /\ UNCHANGED <<file, tmp, old, new, diffs, webhook, always_notify, payload,
                   sendCalled, exit>>

Next ==
    \/ MainLoad
    \/ MainScrape
    \/ MainDiff
    \/ JdumpCreate
    \/ JdumpDump
    \/ JdumpFlush
    \/ JdumpFsync
    \/ JdumpWriteFails
    \/ JdumpMove
    \/ JdumpCopy
    \/ JdumpCopyFails
    \/ JdumpFinally
    \/ JdumpCrash
    \/ MainNotify
    \/ SendStart
    \/ PostOk
    \/ PostHttpError
    \/ PostNetError
    \/ MainReturn

Spec == Init /\ [][Next]_vars

(***************************************************************************)
(* Properties of a run (checked under Spec)                                *)
(***************************************************************************)
\* some list of the change set has an entry
SomeChange ==
    \/ Len(diffs.new_items) > 0
    \/ Len(diffs.price_changes) > 0
    \/ Len(diffs.restocks) > 0
    \/ Len(diffs.stock_increases) > 0

\* main has passed the call of jdump
PastJdump == pc \in {"notify", "send_discord", "post", "return", "exited"}

\* main has passed the if of line 684
PastDecision == pc \in {"send_discord", "post", "return", "exited"}

\* C1: the new snapshot is persisted before anything of the delivery
\* happens (formatting, the call of send_discord, a POST), whatever the
\* change set and ALWAYS_NOTIFY are; no delivery outcome changes it, so when
\* the run is past jdump, and when it has ended, the file holds exactly
\* the newly scraped record set.
C1_PersistedBeforeDelivery ==
    /\ (payload.made \/ sendCalled \/ posts > 0) =>
           (file = Serialized(new) /\ pc \notin JdumpPcs)
    /\ PastJdump => file = Serialized(new)
    /\ exit = "ok" => file = Serialized(new)

\* all four POSTs were answered 503, the run ended with status 0, and the
\* file holds the new snapshot, which differs from the old one
C1_Witness ==
    /\ exit = "ok"
    /\ posts = 4
    /\ lastResp.kind = "http"
    /\ lastResp.code = 503
    /\ old # new
    /\ file = Serialized(new)

\* C2: a message is formatted and send_discord is called iff the change
\* set has an entry in some list or ALWAYS_NOTIFY is "1"; with an empty
\* change set and the flag not "1" nothing is formatted, send_discord is not
\* called and no POST is made.
C2_NotifyIffChangeOrFlag ==
    /\ (payload.made \/ sendCalled \/ posts > 0) =>
           (SomeChange \/ always_notify = "1")
    /\ PastDecision =>
           ((SomeChange \/ always_notify = "1") <=> (payload.made /\ sendCalled))

\* nothing changed, ALWAYS_NOTIFY=1, and the message was formatted and sent
C2_Witness ==
    /\ exit = "ok"
    /\ ~SomeChange
    /\ always_notify = "1"
    /\ payload.made
    /\ sendCalled
    /\ posts > 0

\* C3: send_discord makes at most 4 POSTs; a POST after the first is made
\* only when the one before ended in HTTP 429/403/502/503 or in a network
\* failure, and only while fewer than 4 were made; after a success or any
\* other HTTP error there is none; without an endpoint there is none at all.
C3_AtMostFourAttempts ==
    /\ [](posts <= 4 /\ (webhook \in {"", " "} => posts = 0))
    /\ [][posts' # posts =>
            /\ posts' = posts + 1
            /\ posts < 4
            /\ \/ posts = 0
               \/ lastResp.kind = "neterr"
               \/ /\ lastResp.kind = "http"
                  /\ lastResp.code \in {429, 403, 502, 503}]_vars

\* the fourth POST was made and answered 429, and send_discord returned
C3_Witness ==
    /\ posts = 4
    /\ lastResp.kind = "http"
    /\ lastResp.code = 429
    /\ pc = "return"

\* C4: a delivery failure is swallowed: whatever the status code, the
\* Retry-After header or the network failure, send_discord returns without
\* raising and the run exits with status 0.
C4_DeliveryFailureSwallowed ==
    sendCalled => (pc # "raised" /\ exit # "error")

\* C5: jdump is atomic: at every point of its execution, a crash there
\* included, the snapshot path holds a complete document (the old one or the
\* new one), never an emptied or partly written file.
C5_SnapshotNeverTorn ==
    /\ file.kind \notin {"empty", "partial"}
    /\ pc \in JdumpPcs \cup {"crashed"} => (file \in InitialFiles \/ file = Serialized(new))

\* C6: jload never raises and returns an empty mapping whenever the file is
\* absent, unreadable or holds no key -> record mapping; what it returns is
\* always a mapping, so compute_diff does not fail on it.
C6_LoadReturnsMapping ==
    pc # "jload" =>
        /\ IsMapping(old)
        /\ (file.kind # "json" \/ ~IsMapping(file.doc)) /\ pc = "scrape"
              => old = Mapping(EmptySnap)

\* C11 as stated: the formatted message contains the "no changes" text only
\* when both snapshots are identical and empty.
C11_NoChangesOnlyWhenBothEmpty ==
    (payload.made /\ payload.no_changes) =>
        (old = new /\ DOMAIN new.map = {})

\* C11, amended: the formatted message contains the "no changes" text iff
\* the change set is empty (no list has an entry), which in a run happens
\* only with ALWAYS_NOTIFY=1; identical snapshots, empty or not, always
\* give it, and a message with the text has no section.
C11_NoChangesIffEmptyChangeSet ==
    payload.made =>
        /\ payload.no_changes <=> ~SomeChange
        /\ payload.no_changes => (always_notify = "1" /\ Len(payload.sections) = 0)
        /\ old = new => payload.no_changes

\* ALWAYS_NOTIFY=1, two identical snapshots holding a record, and the
\* message sent is the "no changes" text
C11_Witness ==
    /\ payload.made
    /\ payload.no_changes
    /\ always_notify = "1"
    /\ old = new
    /\ DOMAIN new.map # {}
    /\ posts > 0

\* C12: once jdump has returned or raised, the temporary file it created is
\* gone, on every exit path (success, failure while writing, flushing or
\* fsyncing the temporary file, failure of the move).
C12_NoTempFileLeft ==
    (PastJdump \/ pc = "raised") => tmp = NoFile

(***************************************************************************)
(* SpecDiff: compute_diff applied to every pair of input snapshots         *)
(***************************************************************************)
\* Records per key in the inputs of SpecDiff: key "a" ranges over every
\* record, key "b" over two records (one in stock, one out of stock).
DiffRecords == Records(AnyPrices, AnyQtys)
OtherRecords == {ScrapedRecord(NumP(10000), [s \in {"M"} |-> IntQ(1)]),
                 ScrapedRecord(NaN, [s \in {"M"} |-> IntQ(0)])}
DiffSnapshots ==
    UNION {{f \in [K -> DiffRecords] : "b" \in K => f["b"] \in OtherRecords}
             : K \in SUBSET Keys}

InitDiff ==
    /\ pc = "diff_input"
    /\ old \in {Mapping(m) : m \in DiffSnapshots}
    /\ new \in {Mapping(m) : m \in DiffSnapshots}
    /\ diffs = NoDiffs
    /\ file = NoFile
    /\ tmp = NoFile
    /\ webhook = ""
    /\ always_notify = "0"
    /\ payload = NoPayload
    /\ sendCalled = FALSE
    /\ attempt = 0
    /\ posts = 0
    /\ lastResp = NoResp
    /\ wait = 0
    /\ exit = "running"

DiffStep ==
    /\ pc = "diff_input"
    /\ diffs' = compute_diff(old.map, new.map)
    /\ pc' = "diff_output"
    /\ UNCHANGED <<file, tmp, old, new, webhook, always_notify, payload,
                   sendCalled, attempt, posts, lastResp, wait, exit>>

NextDiff == DiffStep

SpecDiff == InitDiff /\ [][NextDiff]_vars

(***************************************************************************)
(* Properties of compute_diff (checked under SpecDiff)                     *)
(***************************************************************************)
\* the keys of the entries of one list of the change set
KeysOf(list) == {list[i].key : i \in 1..Len(list)}

\* each key has at most one entry in the list
OncePerKey(list) ==
    \A i, j \in 1..Len(list) : list[i].key = list[j].key => i = j

\* every quantity of the dict is an int
AllInt(sizes) == \A s \in DOMAIN sizes : sizes[s].kind = "int"

\* C7: diff(S, S) is the empty change set for every snapshot S: the four
\* lists new_items, price_changes, restocks and stock_increases are all
\* empty, also when S holds NaN prices, empty size maps or non-numeric size
\* quantities.
C7_DiffOfSelfIsEmpty ==
    (pc = "diff_output" /\ old = new) =>
        /\ Len(diffs.new_items) = 0
        /\ Len(diffs.price_changes) = 0
        /\ Len(diffs.restocks) = 0
        /\ Len(diffs.stock_increases) = 0

\* a snapshot diffed against itself whose record "a" has a NaN price, is in
\* stock and holds a non-numeric quantity, and whose record "b" is there too
C7_Witness ==
    /\ pc = "diff_output"
    /\ old = new
    /\ DOMAIN new.map = Keys
    /\ new.map["a"].price = NaN
    /\ new.map["a"].in_stock
    /\ new.map["a"].sizes = [s \in Sizes |-> IF s = "M" THEN TextQ(1) ELSE IntQ(2)]

\* C8: for every key in both snapshots (with integer quantities), there is a
\* stock_increases entry for the key iff some size of new.sizes has a
\* quantity strictly greater than old.sizes.get(size, 0); there is at most
\* one entry per key, and its size map holds exactly the sizes that
\* increased, each with its new quantity.
C8_StockIncreases ==
    pc = "diff_output" =>
        /\ OncePerKey(diffs.stock_increases)
        /\ KeysOf(diffs.stock_increases) \subseteq DOMAIN old.map \cap DOMAIN new.map
        /\ \A k \in DOMAIN old.map \cap DOMAIN new.map :
             LET os == old.map[k].sizes
                 ns == new.map[k].sizes
                 was(s) == IF s \in DOMAIN os THEN os[s].val ELSE 0
                 grown == {s \in DOMAIN ns : ns[s].val > was(s)}
             IN  (AllInt(os) /\ AllInt(ns)) =>
                   /\ (k \in KeysOf(diffs.stock_increases)) <=> (grown # {})
                   /\ \A i \in 1..Len(diffs.stock_increases) :
                        diffs.stock_increases[i].key = k =>
                          /\ DOMAIN diffs.stock_increases[i].inc = grown
                          /\ \A s \in grown :
                               diffs.stock_increases[i].inc[s] = ns[s]

\* old {L:2} against new {M:1, L:2}: M, absent from old, counts as 0 and is
\* reported with its new quantity; L, unchanged, is left out
C8_Witness ==
    /\ pc = "diff_output"
    /\ DOMAIN old.map = {"a"}
    /\ DOMAIN new.map = {"a"}
    /\ old.map["a"].sizes = [s \in {"L"} |-> IntQ(2)]
    /\ new.map["a"].sizes = [s \in Sizes |-> IF s = "M" THEN IntQ(1) ELSE IntQ(2)]
    /\ Len(diffs.stock_increases) = 1
    /\ diffs.stock_increases[1].inc = [s \in {"M"} |-> IntQ(1)]

\* C9: a key is in restocks iff it is in both snapshots with old.in_stock
\* false and new.in_stock true; in-stock -> out-of-stock and unchanged
\* availability are never reported.
C9_RestocksOneDirection ==
    pc = "diff_output" =>
        /\ OncePerKey(diffs.restocks)
        /\ \A k \in Keys :
             (k \in KeysOf(diffs.restocks)) <=>
                 /\ k \in DOMAIN old.map
                 /\ k \in DOMAIN new.map
                 /\ old.map[k].in_stock = FALSE
                 /\ new.map[k].in_stock = TRUE

\* "a" went out of stock and is not reported; "b" came back and is
C9_Witness ==
    /\ pc = "diff_output"
    /\ DOMAIN old.map = Keys
    /\ DOMAIN new.map = Keys
    /\ old.map["a"].in_stock /\ ~new.map["a"].in_stock
    /\ ~old.map["b"].in_stock /\ new.map["b"].in_stock
    /\ KeysOf(diffs.restocks) = {"b"}

\* C10: new_items holds exactly the keys of new absent from old, each once,
\* in ascending key order; none of them is in price_changes, restocks or
\* stock_increases; with old = {} every record of new is in new_items and the
\* other three lists are empty.
C10_NewItems ==
    pc = "diff_output" =>
        /\ KeysOf(diffs.new_items) = DOMAIN new.map \ DOMAIN old.map
        /\ OncePerKey(diffs.new_items)
        /\ \A i, j \in 1..Len(diffs.new_items) :
             i < j => Rank[diffs.new_items[i].key] < Rank[diffs.new_items[j].key]
        /\ \A i \in 1..Len(diffs.new_items) :
             diffs.new_items[i].new = new.map[diffs.new_items[i].key]
        /\ KeysOf(diffs.new_items) \cap
             (KeysOf(diffs.price_changes) \cup KeysOf(diffs.restocks)
                \cup KeysOf(diffs.stock_increases)) = {}
        /\ DOMAIN old.map = {} =>
             /\ KeysOf(diffs.new_items) = DOMAIN new.map
             /\ Len(diffs.price_changes) = 0
             /\ Len(diffs.restocks) = 0
             /\ Len(diffs.stock_increases) = 0

\* an empty old snapshot against a new one holding both keys
C10_Witness ==
    /\ pc = "diff_output"
    /\ DOMAIN old.map = {}
    /\ DOMAIN new.map = Keys
    /\ Len(diffs.new_items) = 2
    /\ diffs.new_items[1].key = "a"
    /\ diffs.new_items[2].key = "b"

====
